---------------------------- MODULE Spec2Model ----------------------------
(***************************************************************************)
(* Model of the FastMCP demonstration repository:                          *)
(*   - calculator_client.py   : extract_tool_result (the response          *)
(*                              unwrapper)                                 *)
(*   - calculator_server.py   : add / subtract / multiply / divide         *)
(*   - data_processor_server.py: DATA_STORE and its lookup tools           *)
(*                                                                         *)
(* Python values are records tagged by the field k.  A str is a sequence   *)
(* of one-character strings, so that json.loads, int() and float() are     *)
(* computed character by character.  A float is the exact decimal          *)
(* n * 10^(-p) in normal form (n has no trailing zero, 0.0 is n=0, p=0).   *)
(***************************************************************************)
EXTENDS Integers, Sequences, FiniteSets, TLC

VARIABLES
    response,   \* client: the envelope handed to extract_tool_result
    outcome,    \* client: what the last extract_tool_result call did
    cpc,        \* client: "idle" | "received" | "extracted"
    calc,       \* calculator server: the last tool call and its outcome
    DATA_STORE, \* data processor server: the record store
    dcall,      \* data processor server: the last call and its outcome
    main        \* client: where main() is, what it displayed, how it ended

vars == <<response, outcome, cpc, calc, DATA_STORE, dcall, main>>

----------------------------------------------------------------------------
(* Bounds *)

MaxLen == 3       \* longest enumerated text
MaxNum == 2       \* calculator arguments range over -MaxNum..MaxNum
MaxQueryLen == 3  \* longest enumerated search query
MaxUserId == 4    \* user ids range over -1..MaxUserId

----------------------------------------------------------------------------
(* Python values *)

PyNone == [k |-> "None"]
PyBool(b) == [k |-> "bool", b |-> b]
PyInt(i) == [k |-> "int", n |-> i]
PyStr(chars) == [k |-> "str", s |-> chars]
PyDict(f) == [k |-> "dict", d |-> f]
PyList(items) == [k |-> "list", items |-> items]

RECURSIVE NormFloat(_, _)
NormFloat(m, p) ==
    IF m = 0 THEN [k |-> "float", n |-> 0, p |-> 0]
    ELSE IF m % 10 = 0 THEN NormFloat(m \div 10, p - 1)
    ELSE [k |-> "float", n |-> m, p |-> p]

PyFloat(m, p) == NormFloat(m, p)

IsStr(v) == v.k = "str"
IsDict(v) == v.k = "dict"

----------------------------------------------------------------------------
(* Characters *)

Digits == {"0", "1", "2", "3", "4", "5", "6", "7", "8", "9"}

DigitVal(c) ==
    CASE c = "0" -> 0 [] c = "1" -> 1 [] c = "2" -> 2 [] c = "3" -> 3
      [] c = "4" -> 4 [] c = "5" -> 5 [] c = "6" -> 6 [] c = "7" -> 7
      [] c = "8" -> 8 [] c = "9" -> 9

IsDigitAt(s, i) == i >= 1 /\ i <= Len(s) /\ s[i] \in Digits

\* first index >= i that does not hold a digit
RECURSIVE SkipDigits(_, _)
SkipDigits(s, i) == IF IsDigitAt(s, i) THEN SkipDigits(s, i + 1) ELSE i

\* value of the digits s[i..j-1]
RECURSIVE DigitsToNat(_, _, _)
DigitsToNat(s, i, j) ==
    IF j <= i THEN 0 ELSE DigitsToNat(s, i, j - 1) * 10 + DigitVal(s[j - 1])

Contains(s, c) == \E i \in 1..Len(s) : s[i] = c

IsSignAt(s, i) == i >= 1 /\ i <= Len(s) /\ s[i] \in {"+", "-"}
IsExpAt(s, i) == i >= 1 /\ i <= Len(s) /\ s[i] \in {"e", "E"}

----------------------------------------------------------------------------
(* Results of a Python expression: a value, or a raised exception *)

Ok(v) == [exc |-> "none", v |-> v]
Raise(kind) == [exc |-> kind, v |-> PyNone]

----------------------------------------------------------------------------
(* int(str) and float(str) of the Python built-ins, on whitespace-free text *)

IntValue(s, b, e) ==
    IF e > b /\ e = Len(s) + 1
    THEN Ok(PyInt((IF s[1] = "-" THEN -1 ELSE 1) * DigitsToNat(s, b, e)))
    ELSE Raise("ValueError")

\* int(text): [sign] digit+
py_int(text) ==
    IntValue(text.s, IF IsSignAt(text.s, 1) THEN 2 ELSE 1,
             SkipDigits(text.s, IF IsSignAt(text.s, 1) THEN 2 ELSE 1))

\* index where the digits of an exponent start, fe when no exponent mark
ExpDigitsStart(s, fe) ==
    IF IsExpAt(s, fe) THEN (IF IsSignAt(s, fe + 1) THEN fe + 2 ELSE fe + 1)
    ELSE fe

\* the exponent's value: digits s[xb..xe-1], negative after "e-"
ExpValue(s, fe, xb, xe) ==
    IF xb > fe /\ s[fe + 1] = "-" THEN -DigitsToNat(s, xb, xe)
    ELSE DigitsToNat(s, xb, xe)

\* float(text) scanned left to right: sign at b-1, integer digits s[b..ie-1],
\* fraction digits s[fb..fe-1] after a ".", exponent digits s[xb..xe-1]
FloatValue(s, b, ie, fb, fe, xb, xe) ==
    IF /\ (ie > b \/ fe > fb)          \* at least one digit
       /\ (xb > fe => xe > xb)         \* an exponent mark needs digits
       /\ xe = Len(s) + 1              \* nothing may follow
    THEN Ok(PyFloat(
            (IF s[1] = "-" THEN -1 ELSE 1)
                * (DigitsToNat(s, b, ie) * (10 ^ (fe - fb))
                    + DigitsToNat(s, fb, fe)),
            (fe - fb) - ExpValue(s, fe, xb, xe)))
    ELSE Raise("ValueError")

FloatExponent(s, b, ie, fb, fe, xb) ==
    FloatValue(s, b, ie, fb, fe, xb, SkipDigits(s, xb))

FloatFraction(s, b, ie, fb, fe) ==
    FloatExponent(s, b, ie, fb, fe, ExpDigitsStart(s, fe))

FloatDot(s, b, ie, fb) == FloatFraction(s, b, ie, fb, SkipDigits(s, fb))

FloatInteger(s, b, ie) ==
    FloatDot(s, b, ie, IF ie <= Len(s) /\ s[ie] = "." THEN ie + 1 ELSE ie)

\* float(text): [sign] (digit+ ["." digit*] | "." digit+) [("e"|"E") [sign] digit+]
py_float(text) ==
    FloatInteger(text.s, IF IsSignAt(text.s, 1) THEN 2 ELSE 1,
                 SkipDigits(text.s, IF IsSignAt(text.s, 1) THEN 2 ELSE 1))

----------------------------------------------------------------------------
(* json.loads of the standard library, on whitespace-free text made of      *)
(* numbers, string literals without escapes, null/true/false and objects   *)

Quote == "\""

MatchAt(s, i, word) ==
    /\ i + Len(word) - 1 <= Len(s)
    /\ \A j \in 1..Len(word) : s[i + j - 1] = word[j]

\* index of the first quote at or after i, 0 when there is none
RECURSIVE FindQuote(_, _)
FindQuote(s, i) ==
    IF i > Len(s) THEN 0
    ELSE IF s[i] = Quote THEN i
    ELSE FindQuote(s, i + 1)

NoParse == [ok |-> FALSE, v |-> PyNone, j |-> 0]
Parsed(v, j) == [ok |-> TRUE, v |-> v, j |-> j]

\* json.decoder NUMBER_RE matched at i:
\*   (-?(?:0|[1-9][0-9]*))(\.[0-9]+)?([eE][-+]?[0-9]+)?
\* integer digits s[b..ie-1], fraction s[ie+1..fe-1], exponent s[xb..xe-1];
\* a fraction or an exponent makes the number a float
NumberValue(s, i, b, ie, fe, xb, xe) ==
    IF ie = b THEN NoParse
    ELSE IF fe > ie \/ xe > fe THEN
        Parsed(PyFloat(
                (IF b > i THEN -1 ELSE 1)
                    * (DigitsToNat(s, b, ie) * (10 ^ (IF fe > ie THEN fe - ie - 1 ELSE 0))
                        + DigitsToNat(s, ie + 1, fe)),
                (IF fe > ie THEN fe - ie - 1 ELSE 0)
                    - (IF xe > fe THEN ExpValue(s, fe, xb, xe) ELSE 0)),
               xe)
    ELSE Parsed(PyInt((IF b > i THEN -1 ELSE 1) * DigitsToNat(s, b, ie)), ie)

NumberExponent(s, i, b, ie, fe, xb) ==
    NumberValue(s, i, b, ie, fe, xb,
                IF xb > fe /\ IsDigitAt(s, xb) THEN SkipDigits(s, xb) ELSE fe)

NumberFraction(s, i, b, ie, fe) ==
    NumberExponent(s, i, b, ie, fe, ExpDigitsStart(s, fe))

NumberInteger(s, i, b, ie) ==
    NumberFraction(s, i, b, ie,
                   IF ie <= Len(s) /\ s[ie] = "." /\ IsDigitAt(s, ie + 1)
                   THEN SkipDigits(s, ie + 1) ELSE ie)

NumberSign(s, i, b) ==
    NumberInteger(s, i, b,
                  IF IsDigitAt(s, b) /\ s[b] = "0" THEN b + 1
                  ELSE SkipDigits(s, b))

ScanNumber(s, i) ==
    NumberSign(s, i, IF i <= Len(s) /\ s[i] = "-" THEN i + 1 ELSE i)

DictSet(f, key, val) ==
    [x \in (DOMAIN f) \cup {key} |-> IF x = key THEN val ELSE f[x]]

EmptyDict == [x \in {} |-> PyNone]

RECURSIVE ParseValue(_, _)
RECURSIVE ParseMembers(_, _, _)

\* json.scanner py_make_scanner._scan_once
ParseValue(s, i) ==
    IF i > Len(s) THEN NoParse
    ELSE IF s[i] = Quote THEN
        LET q == FindQuote(s, i + 1)
        IN  IF q = 0 THEN NoParse
            ELSE Parsed(PyStr(SubSeq(s, i + 1, q - 1)), q + 1)
    ELSE IF s[i] = "{" THEN
        IF i + 1 <= Len(s) /\ s[i + 1] = "}"
        THEN Parsed(PyDict(EmptyDict), i + 2)
        ELSE ParseMembers(s, i + 1, EmptyDict)
    ELSE IF MatchAt(s, i, <<"n", "u", "l", "l">>) THEN Parsed(PyNone, i + 4)
    ELSE IF MatchAt(s, i, <<"t", "r", "u", "e">>) THEN Parsed(PyBool(TRUE), i + 4)
    ELSE IF MatchAt(s, i, <<"f", "a", "l", "s", "e">>)
        THEN Parsed(PyBool(FALSE), i + 5)
    ELSE ScanNumber(s, i)

\* json.decoder JSONObject: the members after "{", a later duplicate key wins
ParseMembers(s, i, acc) ==
    IF ~(i <= Len(s) /\ s[i] = Quote) THEN NoParse
    ELSE
        LET q == FindQuote(s, i + 1)
        IN  IF q = 0 \/ ~(q + 1 <= Len(s) /\ s[q + 1] = ":") THEN NoParse
            ELSE
                LET key == SubSeq(s, i + 1, q - 1)
                    val == ParseValue(s, q + 2)
                    acc2 == DictSet(acc, key, val.v)
                IN  IF ~val.ok \/ val.j > Len(s) THEN NoParse
                    ELSE IF s[val.j] = "}" THEN Parsed(PyDict(acc2), val.j + 1)
                    ELSE IF s[val.j] = "," THEN ParseMembers(s, val.j + 1, acc2)
                    ELSE NoParse

\* json.loads(x): TypeError unless x is a str, JSONDecodeError unless the
\* whole text is one JSON value
json_loads(x) ==
    IF ~IsStr(x) THEN Raise("TypeError")
    ELSE
        LET r == ParseValue(x.s, 1)
        IN  IF r.ok /\ r.j = Len(x.s) + 1 THEN Ok(r.v)
            ELSE Raise("JSONDecodeError")

----------------------------------------------------------------------------
(* Objects as extract_tool_result probes them: hasattr / attribute access  *)

Absent == [st |-> "absent"]      \* no such attribute
Raising == [st |-> "raises"]     \* a property that raises (not AttributeError)
Attr(v) == [st |-> "value", v |-> v]

Envelope(content) == [k |-> "resp", content |-> content]
Item(text, json) == [k |-> "item", text |-> text, json |-> json]
Callable(out) == [k |-> "callable", out |-> out]

\* getattr(obj, name); plain Python values have none of the three attributes
AttrOf(obj, name) ==
    IF obj.k = "resp" /\ name = "content" THEN obj.content
    ELSE IF obj.k = "item" /\ name = "text" THEN obj.text
    ELSE IF obj.k = "item" /\ name = "json" THEN obj.json
    ELSE Absent

\* bool(v)
Truthy(v) ==
    CASE v.k = "None" -> FALSE
      [] v.k = "bool" -> v.b
      [] v.k = "int" -> v.n # 0
      [] v.k = "float" -> v.n # 0
      [] v.k = "str" -> Len(v.s) > 0
      [] v.k = "list" -> Len(v.items) > 0
      [] v.k = "dict" -> DOMAIN v.d # {}
      [] OTHER -> TRUE

\* v[0]
Index0(v) ==
    CASE v.k = "list" -> Ok(v.items[1])
      [] v.k = "str" -> Ok(PyStr(<<v.s[1]>>))
      [] v.k = "dict" -> Raise("KeyError")
      [] OTHER -> Raise("TypeError")

IsCallable(v) == v.k = "callable"

ResultKey == <<"r", "e", "s", "u", "l", "t">>
TextKey == <<"t", "e", "x", "t">>

----------------------------------------------------------------------------
(* extract_tool_result.  A step of the function either returns a value,    *)
(* raises, or falls through to the next statement; seen collects every     *)
(* exception raised on the way, whether or not a handler caught it.        *)

Exc(at, kind) == [at |-> at, kind |-> kind]

Return(v, seen, called) ==
    [exc |-> "none", returned |-> TRUE, ret |-> v, seen |-> seen,
     called |-> called]
Throw(kind, seen, called) ==
    [exc |-> kind, returned |-> FALSE, ret |-> PyNone, seen |-> seen,
     called |-> called]
FallThrough(seen, called) ==
    [exc |-> "none", returned |-> FALSE, ret |-> PyNone, seen |-> seen,
     called |-> called]

\* variant: only int() is tried, whatever the text contains
TextCoerceIntOnly(text_val) ==
    LET c == py_int(text_val)
    IN  IF c.exc = "none" THEN Return(c.v, {}, FALSE)
        ELSE Return(text_val, {Exc("coerce", c.exc)}, FALSE)

\* lines 170-175: the numeric coercion of the text path
TextCoerce(text_val) ==
    LET c == IF Contains(text_val.s, ".") THEN py_float(text_val)
             ELSE py_int(text_val)
    IN  IF c.exc = "none" THEN Return(c.v, {}, FALSE)
        ELSE Return(text_val, {Exc("coerce", c.exc)}, FALSE)

\* variant: the parsed text is returned without looking for a result key
TextPathNoResult(text_val) ==
    LET parsed_text == json_loads(text_val)
    IN  IF parsed_text.exc = "none" THEN Return(parsed_text.v, {}, FALSE)
        ELSE IF parsed_text.exc = "JSONDecodeError" THEN
            LET c == TextCoerce(text_val)
            IN  Return(c.ret, {Exc("loads", "JSONDecodeError")} \cup c.seen,
                       FALSE)
        ELSE Throw(parsed_text.exc, {Exc("loads", parsed_text.exc)}, FALSE)

\* lines 160-175: the text path
TextPath(text_val) ==
    LET parsed_text == json_loads(text_val)
    IN  IF parsed_text.exc = "none" THEN
            IF IsDict(parsed_text.v) /\ ResultKey \in DOMAIN parsed_text.v.d
            THEN Return(parsed_text.v.d[ResultKey], {}, FALSE)
            ELSE Return(parsed_text.v, {}, FALSE)
        ELSE IF parsed_text.exc = "JSONDecodeError" THEN
            LET c == TextCoerce(text_val)
            IN  Return(c.ret, {Exc("loads", "JSONDecodeError")} \cup c.seen,
                       FALSE)
        ELSE Throw(parsed_text.exc, {Exc("loads", parsed_text.exc)}, FALSE)

\* lines 201-208: the numeric coercion of the candidate
ResCoerce(res) ==
    IF IsStr(res) THEN
        LET c == IF Contains(res.s, ".") THEN py_float(res) ELSE py_int(res)
        IN  IF c.exc = "none" THEN Return(c.v, {}, FALSE)
            ELSE Return(res, {Exc("coerce", c.exc)}, FALSE)
    ELSE Return(res, {}, FALSE)

\* variant: key text is preferred to key result
CandidateTextFirst(parsed) ==
    IF TextKey \in DOMAIN parsed.d THEN parsed.d[TextKey]
    ELSE IF ResultKey \in DOMAIN parsed.d THEN parsed.d[ResultKey]
    ELSE parsed

\* lines 192-198: result, else text, else the mapping itself
Candidate(parsed) ==
    IF ResultKey \in DOMAIN parsed.d THEN parsed.d[ResultKey]
    ELSE IF TextKey \in DOMAIN parsed.d THEN parsed.d[TextKey]
    ELSE parsed

\* lines 190-210: the shapes of the obtained JSON
JsonShape(parsed) ==
    IF IsDict(parsed) THEN ResCoerce(Candidate(parsed))
    ELSE Return(parsed, {}, FALSE)

\* variant: a JSON decode error of the output is left to the general handler
JsonBodyNoFallback(json) ==
    IF IsCallable(json) THEN
        IF json.out.exc # "none"
        THEN Throw(json.out.exc, {Exc("call", json.out.exc)}, TRUE)
        ELSE
            LET parsed == json_loads(json.out.v)
            IN  IF parsed.exc # "none"
                THEN Throw(parsed.exc, {Exc("loads", parsed.exc)}, TRUE)
                ELSE
                    LET r == JsonShape(parsed.v)
                    IN  Return(r.ret, r.seen, TRUE)
    ELSE JsonShape(json)

\* lines 180-210: the body of the inner try
JsonBody(json) ==
    IF IsCallable(json) THEN
        IF json.out.exc # "none"
        THEN Throw(json.out.exc, {Exc("call", json.out.exc)}, TRUE)
        ELSE
            LET json_str == json.out.v
                parsed == json_loads(json_str)
            IN  IF parsed.exc = "JSONDecodeError"
                THEN Return(json_str, {Exc("loads", "JSONDecodeError")}, TRUE)
                ELSE IF parsed.exc # "none"
                THEN Throw(parsed.exc, {Exc("loads", parsed.exc)}, TRUE)
                ELSE
                    LET r == JsonShape(parsed.v)
                    IN  Return(r.ret, r.seen, TRUE)
    ELSE JsonShape(json)

\* lines 178-212: the JSON accessor path; "except Exception: pass"
JsonPath(content) ==
    LET json == AttrOf(content, "json")
    IN  IF json.st = "raises"
        THEN Throw("RuntimeError", {Exc("json", "RuntimeError")}, FALSE)
        ELSE IF json.st = "absent" THEN FallThrough({}, FALSE)
        ELSE
            LET b == JsonBody(json.v)
            IN  IF b.exc # "none" THEN FallThrough(b.seen, b.called) ELSE b

\* variant: a bare str handed in as the response is parsed like text content
UnwrapBareText(resp) ==
    IF IsStr(resp) THEN TextPath(resp)
    ELSE
        LET c == AttrOf(resp, "content")
        IN  IF c.st = "raises"
            THEN Throw("RuntimeError", {Exc("content", "RuntimeError")}, FALSE)
            ELSE IF c.st = "absent" \/ ~Truthy(c.v) THEN Return(resp, {}, FALSE)
            ELSE
                LET first == Index0(c.v)
                IN  IF first.exc # "none"
                    THEN Throw(first.exc, {Exc("index", first.exc)}, FALSE)
                    ELSE
                        LET content == first.v
                            text == AttrOf(content, "text")
                        IN  IF text.st = "raises" THEN
                                Throw("RuntimeError",
                                      {Exc("text", "RuntimeError")}, FALSE)
                            ELSE IF text.st = "value" /\ text.v # PyNone
                            THEN TextPath(text.v)
                            ELSE
                                LET j == JsonPath(content)
                                IN  IF j.returned \/ j.exc # "none" THEN j
                                    ELSE Return(resp, j.seen, j.called)

\* lines 155-213: the body of the outer try
Unwrap(resp) ==
    LET c == AttrOf(resp, "content")
    IN  IF c.st = "raises"
        THEN Throw("RuntimeError", {Exc("content", "RuntimeError")}, FALSE)
        ELSE IF c.st = "absent" \/ ~Truthy(c.v) THEN Return(resp, {}, FALSE)
        ELSE
            LET first == Index0(c.v)
            IN  IF first.exc # "none"
                THEN Throw(first.exc, {Exc("index", first.exc)}, FALSE)
                ELSE
                    LET content == first.v
                        text == AttrOf(content, "text")
                    IN  IF text.st = "raises" THEN
                            Throw("RuntimeError",
                                  {Exc("text", "RuntimeError")}, FALSE)
                        ELSE IF text.st = "value" /\ text.v # PyNone
                        THEN TextPath(text.v)
                        ELSE
                            LET j == JsonPath(content)
                            IN  IF j.returned \/ j.exc # "none" THEN j
                                ELSE Return(resp, j.seen, j.called)

\* variant: no outer handler, an exception of the body propagates
OuterHandlerMissing(resp, b) == b

\* lines 214-216: "except Exception as e: ... return response"
OuterHandler(resp, b) ==
    IF b.exc # "none" THEN Return(resp, b.seen, b.called) ELSE b

\* lines 148-216
extract_tool_result(resp) == OuterHandler(resp, Unwrap(resp))

----------------------------------------------------------------------------
(* The envelopes the framework may hand to extract_tool_result *)

TextChars == {"0", "4", "2", ".", "-", "+", "e", "a"}

StringsUpTo(chars, n) == UNION {[1..m -> chars] : m \in 0..n}

TextSamples ==
    { <<"4", "2">>,
      <<"3", ".", "5">>,
      <<"{", "\"", "r", "e", "s", "u", "l", "t", "\"", ":", "7", "}">>,
      <<"{", "\"", "r", "e", "s", "u", "l", "t", "\"", ":", "\"", "5", "\"", "}">>,
      <<"{", "\"", "t", "e", "x", "t", "\"", ":", "\"", "4", ".", "0", "\"", "}">>,
      <<"{", "}">>,
      <<"{", "\"", "r", "e", "s", "u", "l", "t", "\"", ":", "7">>,
      <<"\"", "4", ".", "0", "\"">>,
      <<"{", "\"", "r", "e", "s", "u", "l", "t", "\"", ":", "7", ",", "\"", "t", "e", "x", "t", "\"", ":", "\"", "4", "\"", "}">>,
      <<"n", "u", "l", "l">>,
      <<"{", "\"", "x", "\"", ":", "1", "}">>,
      <<"{", "\"", "t", "e", "x", "t", "\"", ":", "\"", "4", "2", "\"", ",", "\"", "x", "\"", ":", "1", "}">>,
      <<"{", "\"", "r", "e", "s", "u", "l", "t", "\"", ":", "n", "u", "l", "l", "}">>,
      <<"{", "\"", "r", "e", "s", "u", "l", "t", "\"", ":", "{", "\"", "x", "\"", ":", "1", "}", "}">>,
      <<"+", "4", "e", "2">>, <<"+", "4", ".", "e", "2">> }

Texts == StringsUpTo(TextChars, MaxLen) \cup TextSamples

ScalarValues ==
    {PyInt(7), PyNone, PyStr(<<"4", ".", "0">>), PyStr(<<"4", "2">>),
     PyStr(<<"1", "e", "2">>), PyStr(<<"a">>)}

DictKeys == {ResultKey, TextKey, <<"x">>}

Dicts == UNION {{PyDict(f) : f \in [ks -> ScalarValues]} : ks \in SUBSET DictKeys}

\* what content.text may be: missing, raising, None, a str, or not a str
TextAttrs ==
    {Absent, Raising, Attr(PyNone), Attr(PyInt(5)), Attr(PyDict(EmptyDict))}
        \cup {Attr(PyStr(t)) : t \in Texts}

NoTextAttrs == {Absent, Attr(PyNone)}

\* what content.json may be: missing, raising, a callable (returning a str,
\* returning something else, or raising), or a pre-computed value
JsonAttrs ==
    {Absent, Raising,
     Attr(Callable(Raise("RuntimeError"))),
     Attr(Callable(Ok(PyNone))), Attr(Callable(Ok(PyInt(7)))),
     Attr(PyNone), Attr(PyInt(7))}
        \cup {Attr(Callable(Ok(PyStr(t)))) : t \in Texts}
        \cup {Attr(Callable(Ok(d))) : d \in {PyDict(EmptyDict)}}
        \cup {Attr(d) : d \in Dicts}
        \cup {Attr(v) : v \in ScalarValues}

FewJsonAttrs ==
    {Absent, Attr(Callable(Ok(PyStr(<<"{", "}">>)))),
     Attr(PyDict(DictSet(EmptyDict, ResultKey, PyInt(7))))}

Items ==
    {Item(t, j) : t \in TextAttrs, j \in FewJsonAttrs}
        \cup {Item(t, j) : t \in NoTextAttrs, j \in JsonAttrs}

PlainValues == {PyInt(42), PyNone, PyStr(<<"4", "2">>), PyFloat(35, 1)}

Contents ==
    {Absent, Raising, Attr(PyNone), Attr(PyList(<<>>)), Attr(PyInt(7)),
     Attr(PyDict(DictSet(EmptyDict, <<"x">>, PyInt(1)))),
     Attr(PyList(<<PyInt(42)>>)), Attr(PyStr(<<"4", "2">>))}
        \cup {Attr(PyList(<<it>>)) : it \in Items}
        \cup {Attr(PyList(<<Item(Attr(PyStr(<<"4", "2">>)), Absent),
                             Item(Attr(PyStr(<<"a">>)), Absent)>>))}

Envelopes == {Envelope(c) : c \in Contents} \cup PlainValues

----------------------------------------------------------------------------
(* Client: a response arrives from call_tool, then it is unwrapped *)

NoOutcome == FallThrough({}, FALSE)
NoCall == [op |-> "none"]

\* result = await client.call_tool(...): some envelope comes back
Receive ==
    /\ cpc = "idle"
    /\ \E e \in Envelopes : response' = e
    /\ cpc' = "received"
    /\ UNCHANGED <<outcome, calc, DATA_STORE, dcall, main>>

\* result_value = extract_tool_result(result)
Extract ==
    /\ cpc = "received"
    /\ outcome' = extract_tool_result(response)
    /\ cpc' = "extracted"
    /\ UNCHANGED <<response, calc, DATA_STORE, dcall, main>>

\* print(f"  Result: ... {result_value}"): the client moves on to its next call
PrintResult ==
    /\ cpc = "extracted"
    /\ cpc' = "idle"
    /\ response' = PyNone
    /\ outcome' = NoOutcome
    /\ UNCHANGED <<calc, DATA_STORE, dcall, main>>

----------------------------------------------------------------------------
(* calculator_server.py.  Numbers are the doubles with an integer value;   *)
(* a quotient is the exact rational num/den in lowest terms.               *)

Signal(kind, msg) == [exc |-> kind, v |-> PyNone, msg |-> msg]

IsNumber(v) == v.k = "int"

RECURSIVE GCD(_, _)
GCD(a, b) == IF b = 0 THEN a ELSE GCD(b, a % b)

Abs(x) == IF x < 0 THEN -x ELSE x

Quotient(a, b) ==
    LET g == GCD(Abs(a), Abs(b))
        sgn == IF b < 0 THEN -1 ELSE 1
    IN  [k |-> "quotient", num |-> sgn * (a \div g), den |-> Abs(b) \div g]

RECURSIVE Repeat(_, _)
Repeat(seq, n) == IF n <= 0 THEN <<>> ELSE seq \o Repeat(seq, n - 1)

\* a + b
py_add(a, b) ==
    IF IsNumber(a) /\ IsNumber(b) THEN Ok(PyInt(a.n + b.n))
    ELSE IF a.k = "str" /\ b.k = "str" THEN Ok(PyStr(a.s \o b.s))
    ELSE IF a.k = "list" /\ b.k = "list" THEN Ok(PyList(a.items \o b.items))
    ELSE Raise("TypeError")

\* a - b
py_sub(a, b) ==
    IF IsNumber(a) /\ IsNumber(b) THEN Ok(PyInt(a.n - b.n))
    ELSE Raise("TypeError")

\* a * b
py_mul(a, b) ==
    IF IsNumber(a) /\ IsNumber(b) THEN Ok(PyInt(a.n * b.n))
    ELSE IF a.k = "str" /\ IsNumber(b) THEN Ok(PyStr(Repeat(a.s, b.n)))
    ELSE IF IsNumber(a) /\ b.k = "str" THEN Ok(PyStr(Repeat(b.s, a.n)))
    ELSE IF a.k = "list" /\ IsNumber(b) THEN Ok(PyList(Repeat(a.items, b.n)))
    ELSE IF IsNumber(a) /\ b.k = "list" THEN Ok(PyList(Repeat(b.items, a.n)))
    ELSE Raise("TypeError")

\* a / b
py_truediv(a, b) ==
    IF IsNumber(a) /\ IsNumber(b) THEN
        IF b.n = 0 THEN Raise("ZeroDivisionError")
        ELSE Ok(Quotient(a.n, b.n))
    ELSE Raise("TypeError")

\* b == 0
py_eq0(b) == IsNumber(b) /\ b.n = 0

add(a, b) ==
    LET result == py_add(a, b)
    IN  IF result.exc = "TypeError"
        THEN Signal("ValueError", "Invalid input types")
        ELSE result

subtract(a, b) ==
    LET result == py_sub(a, b)
    IN  IF result.exc = "TypeError"
        THEN Signal("ValueError", "Invalid input types")
        ELSE result

multiply(a, b) ==
    LET result == py_mul(a, b)
    IN  IF result.exc = "TypeError"
        THEN Signal("ValueError", "Invalid input types")
        ELSE result

\* the ZeroDivisionError of a / b escapes: only TypeError is converted
divide_unguarded(a, b) ==
    LET result == py_truediv(a, b)
    IN  IF result.exc = "TypeError"
        THEN Signal("ValueError", "Division error")
        ELSE result

divide(a, b) ==
    IF py_eq0(b) THEN Signal("ValueError", "Cannot divide by zero")
    ELSE
        LET result == py_truediv(a, b)
        IN  IF result.exc \in {"TypeError", "ZeroDivisionError"}
            THEN Signal("ValueError", "Division error")
            ELSE result

CalcNumbers == {PyInt(n) : n \in (-MaxNum)..MaxNum}
NonNumeric == {PyStr(<<"a">>), PyNone, PyList(<<PyInt(1)>>)}
CalcArgs == CalcNumbers \cup NonNumeric

ToolCall(op, a, b, out) == [op |-> op, a |-> a, b |-> b, out |-> out]

Add ==
    /\ \E a \in CalcArgs, b \in CalcArgs : calc' = ToolCall("add", a, b, add(a, b))
    /\ UNCHANGED <<response, outcome, cpc, DATA_STORE, dcall, main>>

Subtract ==
    /\ \E a \in CalcArgs, b \in CalcArgs :
           calc' = ToolCall("subtract", a, b, subtract(a, b))
    /\ UNCHANGED <<response, outcome, cpc, DATA_STORE, dcall, main>>

Multiply ==
    /\ \E a \in CalcArgs, b \in CalcArgs :
           calc' = ToolCall("multiply", a, b, multiply(a, b))
    /\ UNCHANGED <<response, outcome, cpc, DATA_STORE, dcall, main>>

Divide ==
    /\ \E a \in CalcArgs, b \in CalcArgs :
           calc' = ToolCall("divide", a, b, divide(a, b))
    /\ UNCHANGED <<response, outcome, cpc, DATA_STORE, dcall, main>>

----------------------------------------------------------------------------
(* data_processor_server.py *)

InitialStore ==
    [users |->
        << [id |-> 1, name |-> <<"A", "l", "i", "c", "e">>, email |-> <<"a", "l", "i", "c", "e", "@", "e", "x", "a", "m", "p", "l", "e", ".", "c", "o", "m">>],
           [id |-> 2, name |-> <<"B", "o", "b">>, email |-> <<"b", "o", "b", "@", "e", "x", "a", "m", "p", "l", "e", ".", "c", "o", "m">>],
           [id |-> 3, name |-> <<"C", "h", "a", "r", "l", "i", "e">>, email |-> <<"c", "h", "a", "r", "l", "i", "e", "@", "e", "x", "a", "m", "p", "l", "e", ".", "c", "o", "m">>] >>,
     products |->
        << [id |-> 101, name |-> <<"L", "a", "p", "t", "o", "p">>, price |-> PyFloat(99999, 2)],
           [id |-> 102, name |-> <<"M", "o", "u", "s", "e">>, price |-> PyFloat(2999, 2)],
           [id |-> 103, name |-> <<"K", "e", "y", "b", "o", "a", "r", "d">>, price |-> PyFloat(7999, 2)] >>]

\* str.lower() of one character (ASCII)
LowerChar(c) ==
    CASE c = "A" -> "a" [] c = "B" -> "b" [] c = "C" -> "c" [] c = "D" -> "d"
      [] c = "E" -> "e" [] c = "F" -> "f" [] c = "G" -> "g" [] c = "H" -> "h"
      [] c = "I" -> "i" [] c = "J" -> "j" [] c = "K" -> "k" [] c = "L" -> "l"
      [] c = "M" -> "m" [] c = "N" -> "n" [] c = "O" -> "o" [] c = "P" -> "p"
      [] c = "Q" -> "q" [] c = "R" -> "r" [] c = "S" -> "s" [] c = "T" -> "t"
      [] c = "U" -> "u" [] c = "V" -> "v" [] c = "W" -> "w" [] c = "X" -> "x"
      [] c = "Y" -> "y" [] c = "Z" -> "z"
      [] OTHER -> c

Lower(str) == [i \in 1..Len(str) |-> LowerChar(str[i])]

\* needle in haystack
IsSubstring(needle, haystack) ==
    \E off \in 0..(Len(haystack) - Len(needle)) :
        \A i \in 1..Len(needle) : haystack[off + i] = needle[i]

\* the stored records are returned without a copy and the store is not
\* written; every tool yields its outcome and the store it leaves behind
ToolResult(out, store) == [out |-> out, store |-> store]

\* the query is matched as typed against the lowered fields
search_users_nolower(store, query) ==
    IF ~Truthy(query) \/ ~IsStr(query)
    THEN ToolResult(Signal("ValueError", "Query must be a non-empty string"),
                    store)
    ELSE
        LET Matches(user) ==
                \/ IsSubstring(query.s, Lower(user.name))
                \/ IsSubstring(query.s, Lower(user.email))
        IN  ToolResult(Ok(SelectSeq(store.users, Matches)), store)

search_users(store, query) ==
    IF ~Truthy(query) \/ ~IsStr(query)
    THEN ToolResult(Signal("ValueError", "Query must be a non-empty string"),
                    store)
    ELSE
        LET query_lower == Lower(query.s)
            Matches(user) ==
                \/ IsSubstring(query_lower, Lower(user.name))
                \/ IsSubstring(query_lower, Lower(user.email))
        IN  ToolResult(Ok(SelectSeq(store.users, Matches)), store)

\* next((u for u in users if u["id"] == user_id), None): 0 when there is none
RECURSIVE FirstWithId(_, _, _)
FirstWithId(records, id, i) ==
    IF i > Len(records) THEN 0
    ELSE IF id.k = "int" /\ records[i].id = id.n THEN i
    ELSE FirstWithId(records, id, i + 1)

\* {**user, "account_status": "active", "created_at": "2024-01-15"}
user_with_details(user) ==
    [id |-> user.id, name |-> user.name, email |-> user.email,
     account_status |-> "active", created_at |-> "2024-01-15"]

\* the computed fields are written into the stored record itself
get_user_details_inplace(store, user_id) ==
    IF user_id.k # "int" \/ user_id.n < 0
    THEN ToolResult(Signal("ValueError", "Invalid user_id"), store)
    ELSE
        LET i == FirstWithId(store.users, user_id, 1)
        IN  IF i = 0
            THEN ToolResult(Signal("KeyError", "User not found"), store)
            ELSE ToolResult(Ok(user_with_details(store.users[i])),
                            [store EXCEPT !.users[i] = user_with_details(@)])

\* the id 0 is rejected with the negative ones
get_user_details_positive(store, user_id) ==
    IF user_id.k # "int" \/ user_id.n <= 0
    THEN ToolResult(Signal("ValueError", "Invalid user_id"), store)
    ELSE
        LET i == FirstWithId(store.users, user_id, 1)
        IN  IF i = 0
            THEN ToolResult(Signal("KeyError", "User not found"), store)
            ELSE ToolResult(Ok(user_with_details(store.users[i])), store)

get_user_details(store, user_id) ==
    IF user_id.k # "int" \/ user_id.n < 0
    THEN ToolResult(Signal("ValueError", "Invalid user_id"), store)
    ELSE
        LET i == FirstWithId(store.users, user_id, 1)
        IN  IF i = 0
            THEN ToolResult(Signal("KeyError", "User not found"), store)
            ELSE ToolResult(Ok(user_with_details(store.users[i])), store)

\* a price in hundredths
Hundredths(price) == price.n * (10 ^ (2 - price.p))

RECURSIVE SumPrices(_, _)
SumPrices(products, i) ==
    IF i > Len(products) THEN 0
    ELSE Hundredths(products[i].price) + SumPrices(products, i + 1)

\* round(total / count, 2), ties to even, on the exact quotient
RoundedAverage(total, count) ==
    LET q == total \div count
        r == total % count
    IN  IF 2 * r > count \/ (2 * r = count /\ q % 2 = 1) THEN q + 1 ELSE q

calculate_average_product_price(store) ==
    IF Len(store.products) = 0
    THEN ToolResult(Signal("ValueError", "No products in store"), store)
    ELSE ToolResult(
            Ok(PyFloat(RoundedAverage(SumPrices(store.products, 1),
                                      Len(store.products)), 2)),
            store)

get_user_count(store) ==
    ToolResult(Ok([count |-> Len(store.users), resource |-> "users"]), store)

get_product_by_id(store, product_id) ==
    LET i == FirstWithId(store.products, product_id, 1)
    IN  IF i = 0
        THEN ToolResult(
                Ok([error |-> "Product not found", product_id |-> product_id,
                    available_ids |->
                        [j \in 1..Len(store.products) |-> store.products[j].id]]),
                store)
        ELSE ToolResult(Ok(store.products[i]), store)

QueryChars == {"b", "B", "o", "z"}

Queries ==
    {PyStr(q) : q \in StringsUpTo(QueryChars, MaxQueryLen)}
        \cup {PyStr(<<"b", "o", "b">>), PyStr(<<"e", "x", "a", "m", "p", "l", "e">>), PyStr(<<"L", "i", "C", "e">>),
                 PyStr(<<"A", "L", "I", "C", "E", "@">>), PyStr(<<".", "c", "o", "m">>),
                 PyNone, PyInt(5)}

UserIds ==
    {PyInt(n) : n \in (-1)..MaxUserId} \cup {PyInt(999), PyStr(<<"2">>), PyNone}

ProductIds == {PyInt(n) : n \in {101, 102, 103, 104, 999}}

DataCall(op, arg, out) == [op |-> op, arg |-> arg, out |-> out]

SearchUsers ==
    /\ \E query \in Queries :
        LET r == search_users(DATA_STORE, query)
        IN  /\ dcall' = DataCall("search_users", query, r.out)
            /\ DATA_STORE' = r.store
    /\ UNCHANGED <<response, outcome, cpc, calc, main>>

GetUserDetails ==
    /\ \E user_id \in UserIds :
        LET r == get_user_details(DATA_STORE, user_id)
        IN  /\ dcall' = DataCall("get_user_details", user_id, r.out)
            /\ DATA_STORE' = r.store
    /\ UNCHANGED <<response, outcome, cpc, calc, main>>

CalculateAverageProductPrice ==
    /\ LET r == calculate_average_product_price(DATA_STORE)
       IN  /\ dcall' = DataCall("calculate_average_product_price", PyNone, r.out)
           /\ DATA_STORE' = r.store
    /\ UNCHANGED <<response, outcome, cpc, calc, main>>

GetUserCount ==
    /\ LET r == get_user_count(DATA_STORE)
       IN  /\ dcall' = DataCall("get_user_count", PyNone, r.out)
           /\ DATA_STORE' = r.store
    /\ UNCHANGED <<response, outcome, cpc, calc, main>>

GetProductById ==
    /\ \E product_id \in ProductIds :
        LET r == get_product_by_id(DATA_STORE, product_id)
        IN  /\ dcall' = DataCall("get_product_by_id", product_id, r.out)
            /\ DATA_STORE' = r.store
    /\ UNCHANGED <<response, outcome, cpc, calc, main>>

----------------------------------------------------------------------------
(* calculator_client.py: main(), the demo sequence *)

\* the awaited calls of main() in program order
MainSteps ==
    <<"connect", "list_tools", "list_resources", "list_prompts",
      "test1", "test2", "test3", "read_settings", "read_guide",
      "chain_add", "chain_multiply", "chain_subtract", "get_prompt">>

\* main() before its first call; its variables are unbound until assigned
MainStart ==
    [pc |-> 1, status |-> "running", shown |-> <<>>, call |-> NoCall,
     result_value |-> PyNone, step1 |-> PyNone, step2 |-> PyNone,
     final |-> PyNone]

\* a line main() prints or logs
Line(kind, step, v) == [kind |-> kind, step |-> step, v |-> v]

\* how an awaited call ends: it raises, or it returns a response
Failed(text) == [st |-> "failed", text |-> text]
Delivered(resp) == [st |-> "returned", resp |-> resp]

\* failures of the framework itself (connection, transport, protocol)
FrameworkFailures == {"Connection closed"}

DigitChars == <<"0", "1", "2", "3", "4", "5", "6", "7", "8", "9">>

\* str(n) for an int n
RECURSIVE Decimal(_)
Decimal(n) ==
    IF n < 0 THEN <<"-">> \o Decimal(-n)
    ELSE IF n < 10 THEN <<DigitChars[n + 1]>>
    ELSE Decimal(n \div 10) \o <<DigitChars[(n % 10) + 1]>>

\* the whole number a tool returned: an int, or a quotient that is whole
\* (every quotient of the demo sequence is)
WholeOf(v) ==
    CASE v.k = "int" -> v.n
      [] v.k = "quotient" /\ v.den = 1 -> v.num

TextContent(chars) == Item(Attr(PyStr(chars)), Absent)
OneItem(item) == Envelope(Attr(PyList(<<item>>)))

\* the responses in which a tool's number n can come back: text content
\* holding the int or the float numeral or a {"result": n} object,
\* structured content behind the JSON accessor, or no content at all
ResponsesFor(n) ==
    {OneItem(TextContent(Decimal(n))),
     OneItem(TextContent(Decimal(n) \o <<".", "0">>)),
     OneItem(TextContent(<<"{", Quote>> \o ResultKey \o <<Quote, ":">>
                             \o Decimal(n) \o <<"}">>)),
     OneItem(Item(Absent, Attr(PyDict(DictSet(EmptyDict, ResultKey, PyInt(n)))))),
     Envelope(Attr(PyList(<<>>)))}

\* await client.call_tool(...): a tool that raises surfaces as a failed call
\* carrying the tool's message; any call can fail in the framework
ToolOutcomes(out) ==
    {Failed(t) : t \in FrameworkFailures}
        \cup (IF out.exc # "none" THEN {Failed(out.msg)}
              ELSE {Delivered(r) : r \in ResponsesFor(WholeOf(out.v))})

\* await client.list_tools() / list_resources() / list_prompts(), and
\* entering the async with
PlainOutcomes == {Failed(t) : t \in FrameworkFailures} \cup {Delivered(PyList(<<>>))}

\* await client.read_resource(...) / get_prompt(...): a list of contents,
\* possibly empty
ReadOutcomes ==
    {Failed(t) : t \in FrameworkFailures}
        \cup {Delivered(PyList(<<TextContent(<<"v">>)>>)), Delivered(PyList(<<>>))}

RECURSIVE Pow10(_)
Pow10(e) == IF e <= 0 THEN 1 ELSE 10 * Pow10(e - 1)

\* an argument as the tool receives it: a whole float is the number it holds
Argument(v) ==
    IF v.k = "float" /\ v.p <= 0 THEN PyInt(v.n * Pow10(-v.p)) ELSE v

\* text[:200] + "..."
Excerpt(text) ==
    PyStr(SubSeq(text.s, 1, IF Len(text.s) < 200 THEN Len(text.s) ELSE 200)
              \o <<".", ".", ".">>)

\* variant: no call of the sequence has a handler of its own
GuardedNowhere(step) == FALSE

\* lines 76-80: the one call inside its own try/except
Guarded(step) == step = "test3"

At(step) ==
    /\ main.status = "running"
    /\ cpc = "idle"
    /\ main.pc <= Len(MainSteps)
    /\ MainSteps[main.pc] = step

Called(m, step, o) == [m EXCEPT !.call = [step |-> step, st |-> o.st]]

\* the next statement, after printing
Advance(m, line) == [m EXCEPT !.pc = @ + 1, !.shown = Append(@, line)]

\* lines 143-145: logger.error(f"Client error: {e}"); sys.exit(1)
Abort(m, step, text) ==
    [m EXCEPT !.status = "exit1",
              !.shown = Append(@, Line("client_error", step, text))]

\* an exception raised at a step: line 79-80 if the step is inside the inner
\* try, lines 143-145 otherwise
OnException(m, step, text) ==
    IF Guarded(step) THEN Advance(m, Line("caught", step, text))
    ELSE Abort(m, step, text)

\* a call whose result is only listed
Discover(step) ==
    /\ At(step)
    /\ \E o \in PlainOutcomes :
           main' = IF o.st = "failed"
                   THEN OnException(Called(main, step, o), step, o.text)
                   ELSE Advance(Called(main, step, o), Line("listed", step, PyNone))
    /\ UNCHANGED <<response, outcome, cpc, calc, DATA_STORE, dcall>>

\* result = await client.call_tool(...): the response is handed to
\* extract_tool_result (action Extract) unless the call raises
CallTool(step, out) ==
    /\ At(step)
    /\ \E o \in ToolOutcomes(out) :
           IF o.st = "failed"
           THEN /\ main' = OnException(Called(main, step, o), step, o.text)
                /\ UNCHANGED <<response, cpc>>
           ELSE /\ main' = Called(main, step, o)
                /\ response' = o.resp
                /\ cpc' = "received"
    /\ UNCHANGED <<outcome, calc, DATA_STORE, dcall>>

\* the variable each tool step assigns the unwrapped value to
Target(step) ==
    CASE step = "chain_add" -> "step1"
      [] step = "chain_multiply" -> "step2"
      [] step = "chain_subtract" -> "final"
      [] OTHER -> "result_value"

\* x = extract_tool_result(result) has returned: assign and print
StoreResult ==
    /\ main.status = "running"
    /\ cpc = "extracted"
    /\ main' = Advance([main EXCEPT ![Target(main.call.step)] = outcome.ret],
                       Line("result", main.call.step, outcome.ret))
    /\ response' = PyNone
    /\ outcome' = NoOutcome
    /\ cpc' = "idle"
    /\ UNCHANGED <<calc, DATA_STORE, dcall>>

Connect == Discover("connect")
ListTools == Discover("list_tools")
ListResources == Discover("list_resources")
ListPrompts == Discover("list_prompts")

Test1 == CallTool("test1", add(PyInt(15), PyInt(27)))
Test2 == CallTool("test2", divide(PyInt(100), PyInt(5)))

Test3 ==
    /\ At("test3")
    /\ \E o \in ToolOutcomes(divide(PyInt(10), PyInt(0))) :
           main' = IF o.st = "failed"
                   THEN OnException(Called(main, "test3", o), "test3", o.text)
                   ELSE Advance(Called(main, "test3", o),
                                Line("unexpected", "test3", o.resp))
    /\ UNCHANGED <<response, outcome, cpc, calc, DATA_STORE, dcall>>

\* the first content's text, or the exception reading it raises
FirstText(contents) ==
    IF Len(contents.items) = 0 THEN Raise("IndexError")
    ELSE IF AttrOf(Index0(contents).v, "text").st # "value"
    THEN Raise("AttributeError")
    ELSE Ok(AttrOf(Index0(contents).v, "text").v)

ReadSettings ==
    /\ At("read_settings")
    /\ \E o \in ReadOutcomes :
           main' = IF o.st = "failed"
                   THEN OnException(Called(main, "read_settings", o),
                                    "read_settings", o.text)
                   ELSE IF FirstText(o.resp).exc # "none"
                   THEN OnException(Called(main, "read_settings", o),
                                    "read_settings", FirstText(o.resp).exc)
                   ELSE Advance(Called(main, "read_settings", o),
                                Line("resource", "read_settings",
                                     FirstText(o.resp).v))
    /\ UNCHANGED <<response, outcome, cpc, calc, DATA_STORE, dcall>>

ReadGuide ==
    /\ At("read_guide")
    /\ \E o \in ReadOutcomes :
           main' = IF o.st = "failed"
                   THEN OnException(Called(main, "read_guide", o),
                                    "read_guide", o.text)
                   ELSE IF FirstText(o.resp).exc # "none"
                   THEN OnException(Called(main, "read_guide", o),
                                    "read_guide", FirstText(o.resp).exc)
                   ELSE Advance(Called(main, "read_guide", o),
                                Line("resource", "read_guide",
                                     Excerpt(FirstText(o.resp).v)))
    /\ UNCHANGED <<response, outcome, cpc, calc, DATA_STORE, dcall>>

ChainAdd == CallTool("chain_add", add(PyInt(10), PyInt(5)))

ChainMultiply ==
    CallTool("chain_multiply",
             multiply(Argument(main.step1), PyInt(3)))

ChainSubtract ==
    CallTool("chain_subtract",
             subtract(Argument(main.step2), PyInt(7)))

\* the last call; after it main() logs completion and returns
GetPrompt ==
    /\ At("get_prompt")
    /\ \E o \in ReadOutcomes :
           main' = IF o.st = "failed"
                   THEN OnException(Called(main, "get_prompt", o),
                                    "get_prompt", o.text)
                   ELSE IF FirstText(o.resp).exc # "none"
                   THEN OnException(Called(main, "get_prompt", o),
                                    "get_prompt", FirstText(o.resp).exc)
                   ELSE [Advance(Called(main, "get_prompt", o),
                                 Line("template", "get_prompt",
                                      FirstText(o.resp).v))
                            EXCEPT !.status = "completed"]
    /\ UNCHANGED <<response, outcome, cpc, calc, DATA_STORE, dcall>>

----------------------------------------------------------------------------
(* Specifications: the client and the two servers are separate programs *)

Init ==
    /\ response = PyNone
    /\ outcome = NoOutcome
    /\ cpc = "idle"
    /\ calc = NoCall
    /\ DATA_STORE = InitialStore
    /\ dcall = NoCall
    /\ main = MainStart

\* the client's unwrapping of responses
NextUnwrap == Receive \/ Extract \/ PrintResult
SpecUnwrap == Init /\ [][NextUnwrap]_vars

\* the calculator server's tools
NextCalc == Add \/ Subtract \/ Multiply \/ Divide
SpecCalc == Init /\ [][NextCalc]_vars

\* the data processor server's tools and resources
NextData ==
    \/ SearchUsers \/ GetUserDetails \/ CalculateAverageProductPrice
    \/ GetUserCount \/ GetProductById
SpecData == Init /\ [][NextData]_vars

\* the statements of main() around its awaited calls
MainStep ==
    \/ Connect \/ ListTools \/ ListResources \/ ListPrompts
    \/ Test1 \/ Test2 \/ Test3 \/ ReadSettings \/ ReadGuide
    \/ ChainAdd \/ ChainMultiply \/ ChainSubtract \/ GetPrompt
    \/ StoreResult

\* the client's demo sequence: the event loop runs main() until it returns
\* or exits, every awaited call returns or raises, and extract_tool_result
\* returns
NextMain == MainStep \/ Extract
SpecMain ==
    /\ Init /\ [][NextMain]_vars
    /\ WF_vars(MainStep)
    /\ []<>(cpc # "received")

----------------------------------------------------------------------------
(* Properties of extract_tool_result (checked under SpecUnwrap) *)

Extracted == cpc = "extracted"

\* the envelope has a non-empty list of content items whose first is an object
HasFirstItem ==
    /\ response.k = "resp"
    /\ response.content.st = "value"
    /\ response.content.v.k = "list"
    /\ Len(response.content.v.items) > 0
    /\ response.content.v.items[1].k = "item"

FirstItem == response.content.v.items[1]

\* the first content item exposes non-null text
HasText ==
    /\ HasFirstItem
    /\ FirstItem.text.st = "value"
    /\ FirstItem.text.v # PyNone

\* the first content item has no text attribute, or its text is None
HasNoText ==
    /\ HasFirstItem
    /\ \/ FirstItem.text.st = "absent"
       \/ FirstItem.text.st = "value" /\ FirstItem.text.v = PyNone

Returned(v) == outcome.exc = "none" /\ outcome.returned /\ outcome.ret = v

\* a failed JSON parse of a str and a failed numeric coercion have handlers
\* of their own (lines 168, 174, 185, 206)
HandledLocally(e) ==
    \/ e.at = "loads" /\ e.kind = "JSONDecodeError"
    \/ e.at = "coerce"

\* C1 as stated: extract_tool_result never raises, and whenever any exception
\* occurs during unwrapping the value returned is the original envelope.
C1_AnyExceptionReturnsEnvelope ==
    Extracted =>
        /\ outcome.exc = "none" /\ outcome.returned
        /\ (outcome.seen # {} => outcome.ret = response)

\* C1 amended: extract_tool_result never raises, and whenever an exception
\* occurs other than a JSON decode error of the text or of the accessor's
\* output and other than a failure of the numeric coercion, the value
\* returned is the original envelope.
C1_NeverRaises ==
    Extracted =>
        /\ outcome.exc = "none" /\ outcome.returned
        /\ ((\E e \in outcome.seen : ~HandledLocally(e))
                => outcome.ret = response)

C1_Witness ==
    /\ Extracted
    /\ Exc("loads", "TypeError") \in outcome.seen
    /\ outcome.exc = "none"
    /\ outcome.ret = response

\* C2: when the first content item exposes non-null text that parses as JSON,
\* the result is the value under key result if the parsed value is a mapping
\* with that key (uncoerced), and the parsed value itself otherwise; "42"
\* gives the integer 42, "3.5" the float 3.5 and {"result":7} gives 7.
C2_ParsedText ==
    (Extracted /\ HasText /\ json_loads(FirstItem.text.v).exc = "none") =>
        LET text == FirstItem.text.v
            parsed == json_loads(text).v
        IN  /\ (parsed.k = "dict" /\ ResultKey \in DOMAIN parsed.d)
                    => Returned(parsed.d[ResultKey])
            /\ ~(parsed.k = "dict" /\ ResultKey \in DOMAIN parsed.d)
                    => Returned(parsed)
            /\ text = PyStr(<<"4", "2">>) => Returned(PyInt(42))
            /\ text = PyStr(<<"3", ".", "5">>) => Returned(PyFloat(35, 1))
            /\ text = PyStr(<<"{", Quote, "r", "e", "s", "u", "l", "t", Quote,
                              ":", "7", "}">>) => Returned(PyInt(7))
            /\ text = PyStr(<<"{", Quote, "r", "e", "s", "u", "l", "t", Quote,
                              ":", Quote, "5", Quote, "}">>)
                    => Returned(PyStr(<<"5">>))

C2_Witness ==
    /\ Extracted /\ HasText
    /\ FirstItem.text.v = PyStr(<<"{", Quote, "r", "e", "s", "u", "l", "t",
                                  Quote, ":", Quote, "5", Quote, "}">>)
    /\ outcome.ret = PyStr(<<"5">>)

\* the numeric coercion the specification describes for a raw text
CoercionOf(text) ==
    IF text.k = "str" /\ Contains(text.s, ".") /\ py_float(text).exc = "none"
    THEN py_float(text).v
    ELSE IF text.k = "str" /\ ~Contains(text.s, ".") /\ py_int(text).exc = "none"
    THEN py_int(text).v
    ELSE text

\* C3 as stated: whenever the first content item exposes non-null text and
\* parsing that text as JSON fails, the result is the numeric coercion of the
\* raw text (float with a decimal point, else integer, else the raw text),
\* never the envelope and never an error.
C3_AnyParseFailureCoerces ==
    (Extracted /\ HasText /\ json_loads(FirstItem.text.v).exc # "none") =>
        Returned(CoercionOf(FirstItem.text.v))

\* C3 amended: whenever the first content item exposes non-null text that is
\* a string and parsing it as JSON fails, the result is the numeric coercion
\* of the raw text: a float if it contains a decimal point and parses as a
\* float, an integer if it contains none and parses as an integer, and
\* otherwise the raw text unchanged (never the envelope, never an error).
C3_StrParseFailureCoerces ==
    (/\ Extracted /\ HasText
     /\ FirstItem.text.v.k = "str"
     /\ json_loads(FirstItem.text.v).exc # "none") =>
        /\ Returned(CoercionOf(FirstItem.text.v))
        /\ outcome.ret # response

C3_Witness ==
    /\ Extracted /\ HasText
    /\ FirstItem.text.v = PyStr(<<"4", ".">>)
    /\ json_loads(FirstItem.text.v).exc = "JSONDecodeError"
    /\ outcome.ret = PyFloat(4, 0)

\* the JSON the accessor path obtains: the parsed output of a callable
\* accessor, or the accessor's pre-computed value
ObtainedJson ==
    LET json == FirstItem.json.v
    IN  IF json.k = "callable"
        THEN (IF json.out.exc = "none" THEN json_loads(json.out.v)
              ELSE Raise(json.out.exc))
        ELSE Ok(json)

HasJson == HasFirstItem /\ FirstItem.json.st = "value"

\* C4: with no non-null text and a JSON accessor whose obtained value is a
\* mapping, the candidate is result, else text, else the mapping itself; a
\* candidate that is text is coerced by the rule of the text path (decimal
\* point => float, else integer, else unchanged) and any other candidate is
\* returned unchanged.
C4_MappingPrecedence ==
    (/\ Extracted /\ HasNoText /\ HasJson
     /\ ObtainedJson.exc = "none" /\ ObtainedJson.v.k = "dict") =>
        LET m == ObtainedJson.v
            cand == IF ResultKey \in DOMAIN m.d THEN m.d[ResultKey]
                    ELSE IF TextKey \in DOMAIN m.d THEN m.d[TextKey]
                    ELSE m
        IN  /\ cand.k = "str" => /\ Returned(TextCoerce(cand).ret)
                                 /\ Returned(CoercionOf(cand))
            /\ cand.k # "str" => Returned(cand)

C4_Witness ==
    /\ Extracted /\ HasNoText /\ HasJson
    /\ ObtainedJson.exc = "none" /\ ObtainedJson.v.k = "dict"
    /\ {ResultKey, TextKey} \subseteq DOMAIN ObtainedJson.v.d
    /\ ObtainedJson.v.d[ResultKey] = PyStr(<<"4", ".", "0">>)
    /\ ObtainedJson.v.d[TextKey] = PyStr(<<"4", "2">>)
    /\ outcome.ret = PyFloat(4, 0)

HasCallableJson == HasJson /\ FirstItem.json.v.k = "callable"

\* C5 as stated: when the first content item's JSON accessor is callable it
\* is called and its output parsed as JSON, and for every output that fails
\* to parse the value returned is that raw output (not the envelope).
C5_AnyOutputFallsBack ==
    (Extracted /\ HasCallableJson) =>
        /\ outcome.called
        /\ (/\ FirstItem.json.v.out.exc = "none"
            /\ json_loads(FirstItem.json.v.out.v).exc # "none")
                => Returned(FirstItem.json.v.out.v)

\* C5 amended: when the first content item has no non-null text and its JSON
\* accessor is callable, it is called and its output is parsed as JSON; for
\* every output that is a string and fails to parse as JSON, the value
\* returned is that raw output of the call (not the envelope).
C5_StrOutputFallsBack ==
    (Extracted /\ HasNoText /\ HasCallableJson) =>
        /\ outcome.called
        /\ (/\ FirstItem.json.v.out.exc = "none"
            /\ FirstItem.json.v.out.v.k = "str"
            /\ json_loads(FirstItem.json.v.out.v).exc # "none")
                => (Returned(FirstItem.json.v.out.v) /\ outcome.ret # response)

C5_Witness ==
    /\ Extracted /\ HasNoText /\ HasCallableJson
    /\ FirstItem.json.v.out = Ok(PyStr(<<"a">>))
    /\ outcome.called
    /\ outcome.ret = PyStr(<<"a">>)

----------------------------------------------------------------------------
(* Properties of the calculator tools (checked under SpecCalc) *)

\* C6: divide(a, b) returns a/b for every a and every b other than zero, and
\* for every a divide(a, 0) signals the division-by-zero ValueError without
\* returning a value.
C6_Divide ==
    calc.op = "divide" =>
        /\ (IsNumber(calc.a) /\ IsNumber(calc.b) /\ calc.b.n # 0) =>
                /\ calc.out.exc = "none"
                /\ calc.out.v.k = "quotient"
                /\ calc.out.v.den > 0
                /\ calc.out.v.num * calc.b.n = calc.a.n * calc.out.v.den
        /\ calc.b = PyInt(0) =>
                /\ calc.out.exc = "ValueError"
                /\ calc.out.v = PyNone

C6_Witness ==
    /\ calc.op = "divide"
    /\ calc.a = PyInt(1)
    /\ calc.b = PyInt(0)
    /\ calc.out.exc = "ValueError"
    /\ calc.out.msg = "Cannot divide by zero"

\* C7: each of add, subtract, multiply and divide signals ValueError whenever
\* either input is not numeric; no such call returns a value or signals
\* another error kind.
C7_NonNumericSignalsValueError ==
    (calc.op \in {"add", "subtract", "multiply", "divide"}
        /\ (~IsNumber(calc.a) \/ ~IsNumber(calc.b)))
            => calc.out.exc = "ValueError"

----------------------------------------------------------------------------
(* Properties of the data processor (checked under SpecData) *)

UserIndexes(id) ==
    {i \in 1..Len(DATA_STORE.users) : DATA_STORE.users[i].id = id}

IsAugmented(rec, user) ==
    /\ DOMAIN rec = {"id", "name", "email", "account_status", "created_at"}
    /\ rec.id = user.id /\ rec.name = user.name /\ rec.email = user.email
    /\ rec.account_status = "active"
    /\ rec.created_at = "2024-01-15"

PresentIdAugmented ==
    \A i \in UserIndexes(dcall.arg.n) :
        /\ dcall.out.exc = "none"
        /\ IsAugmented(dcall.out.v, DATA_STORE.users[i])

\* C8 as stated: get_user_details returns the augmented record for every
\* integer id present in the user collection and signals KeyError for every
\* integer id absent from it.
C8_AbsentIdIsKeyError ==
    (dcall.op = "get_user_details" /\ dcall.arg.k = "int") =>
        /\ PresentIdAugmented
        /\ UserIndexes(dcall.arg.n) = {} => dcall.out.exc = "KeyError"

\* C8 amended: get_user_details returns the augmented record (account_status
\* "active", created_at "2024-01-15") for every integer id present in the
\* user collection, signals KeyError for every non-negative integer id absent
\* from it, and signals ValueError for every negative integer id.
C8_LookupById ==
    (dcall.op = "get_user_details" /\ dcall.arg.k = "int") =>
        /\ PresentIdAugmented
        /\ (UserIndexes(dcall.arg.n) = {} /\ dcall.arg.n >= 0)
                => dcall.out.exc = "KeyError"
        /\ dcall.arg.n < 0 => dcall.out.exc = "ValueError"

C8_Witness ==
    /\ dcall.op = "get_user_details"
    /\ dcall.arg = PyInt(0)
    /\ dcall.out.exc = "KeyError"

SameLetter(c, d) == LowerChar(c) = LowerChar(d)

ContainsIgnoringCase(field, q) ==
    \E off \in 0..(Len(field) - Len(q)) :
        \A i \in 1..Len(q) : SameLetter(field[off + i], q[i])

MatchingIndexes(q) ==
    {i \in 1..Len(DATA_STORE.users) :
        \/ ContainsIgnoringCase(DATA_STORE.users[i].name, q)
        \/ ContainsIgnoringCase(DATA_STORE.users[i].email, q)}

\* list holds the records at the indexes idxs of the store, in store order
IsSelection(list, idxs) ==
    /\ Len(list) = Cardinality(idxs)
    /\ \A i \in idxs :
        list[Cardinality({x \in idxs : x <= i})] = DATA_STORE.users[i]

\* C9: search_users(query) returns, in store order, exactly the user records
\* whose name or email contains the query as a case-insensitive substring
\* (for "bob" exactly the record with email bob@example.com), and signals
\* ValueError for the empty query.
C9_SearchUsers ==
    (dcall.op = "search_users" /\ dcall.arg.k = "str") =>
        /\ dcall.arg.s = <<>> => dcall.out.exc = "ValueError"
        /\ dcall.arg.s # <<>> =>
                /\ dcall.out.exc = "none"
                /\ IsSelection(dcall.out.v, MatchingIndexes(dcall.arg.s))
        /\ dcall.arg.s = <<"b", "o", "b">> =>
                /\ Len(dcall.out.v) = 1
                /\ dcall.out.v[1].email = <<"b", "o", "b", "@", "e", "x", "a", "m", "p", "l", "e", ".", "c", "o", "m">>

C9_Witness ==
    /\ dcall.op = "search_users"
    /\ dcall.arg = PyStr(<<"B", "o">>)
    /\ dcall.out.exc = "none"
    /\ Len(dcall.out.v) = 1
    /\ dcall.out.v[1].id = 2

\* C10: after any sequence of search_users, get_user_details,
\* calculate_average_product_price, get_user_count and get_product_by_id
\* calls, failing or not, the users and products collections hold exactly
\* the records, fields and order of process start; the fields
\* get_user_details adds never appear in a stored record.
C10_StoreImmutable ==
    /\ DATA_STORE = InitialStore
    /\ \A i \in 1..Len(DATA_STORE.users) :
        DOMAIN DATA_STORE.users[i] = {"id", "name", "email"}

C10_Witness ==
    /\ dcall.op = "get_user_details"
    /\ dcall.out.exc = "none"
    /\ dcall.out.v.account_status = "active"
    /\ DATA_STORE.users = InitialStore.users

\* a step of main() in which the awaited call fails
CallFails == main'.call # main.call /\ main'.call.st = "failed"

\* the step prints or logs one more line, carrying the failure text
FailureShown ==
    /\ Len(main'.shown) = Len(main.shown) + 1
    /\ main'.shown[Len(main'.shown)].kind \in {"caught", "client_error"}
    /\ main'.shown[Len(main'.shown)].step = main'.call.step

Continues == main'.status = "running" /\ main'.pc = main.pc + 1

Exits == main'.status = "exit1" /\ main'.pc = main.pc

\* C11 as stated: whenever a call of the demo sequence fails, the client
\* displays the failure text and continues with the next step in program
\* order instead of aborting.
C11_AnyFailureContinues == [][CallFails => FailureShown /\ Continues]_vars

\* C11: a failure of the division-by-zero call of Test 3 is displayed and
\* the client continues with the next step in program order; a failure of any
\* other call is logged and the client exits with status 1, running none of
\* the remaining steps; steps run in program order, and the sequence
\* eventually reaches its end or exits.
C11_FailureHandling ==
    /\ [][CallFails =>
            /\ FailureShown
            /\ IF main'.call.step = "test3" THEN Continues ELSE Exits]_vars
    /\ [][main.status # "running" => main' = main]_vars
    /\ [][main'.pc \in {main.pc, main.pc + 1}]_vars
    /\ (main.status = "running") ~> (main.status \in {"completed", "exit1"})
    /\ [](main.status = "completed" =>
            /\ main.pc = Len(MainSteps) + 1
            /\ \A i \in 1..Len(main.shown) :
                   main.shown[i].kind # "client_error")

\* Test 3 failed with the tool's message, which was displayed, and the
\* sequence went on to its end
C11_Witness ==
    /\ main.status = "completed"
    /\ \E i \in 1..Len(main.shown) :
           /\ main.shown[i].kind = "caught"
           /\ main.shown[i].step = "test3"
           /\ main.shown[i].v = "Cannot divide by zero"
    /\ main.shown[Len(main.shown)].kind = "template"

\* C12: extract_tool_result is idempotent: applying it to its own result
\* (an unwrapped value or a passed-through envelope) returns that result
\* unchanged, extract_tool_result(extract_tool_result(e)) =
\* extract_tool_result(e).
C12_Idempotent ==
    Extracted =>
        /\ extract_tool_result(outcome.ret).exc = "none"
        /\ extract_tool_result(outcome.ret).returned
        /\ extract_tool_result(outcome.ret).ret = outcome.ret

\* the JSON string literal "4.0" unwraps to the str 4.0, which a second
\* application leaves a str
C12_Witness ==
    /\ Extracted /\ HasText
    /\ FirstItem.text.v = PyStr(<<Quote, "4", ".", "0", Quote>>)
    /\ outcome.ret = PyStr(<<"4", ".", "0">>)
    /\ extract_tool_result(outcome.ret).ret = PyStr(<<"4", ".", "0">>)

=============================================================================
